---- MODULE Spec2Model ----
(***************************************************************************)
(* State-machine model of SSHClient (src/src/index.ts): one client object  *)
(* with its lazily started connection, the exec invocations and putFile    *)
(* calls issued on it, and the transport (ssh2 Client) as the environment  *)
(* that delivers ready/error signals, channel callbacks, data chunks, the  *)
(* stdin write acknowledgement, the exit event and timer expirations.      *)
(* Every action is one run-to-completion step of the single-threaded       *)
(* event loop: a public call up to its first await, the continuation of    *)
(* an await, or one event handler.                                         *)
(***************************************************************************)
EXTENDS Integers, Sequences, FiniteSets, TLC

(* ------------------------------ bounds --------------------------------- *)
\* exec / putFile calls issued on the client instance
NumCalls == 2
\* explicit connect() calls issued on the client instance
MaxConnects == 1
\* close() calls issued on the client instance
MaxCloses == 2
\* data chunks the transport delivers (all channels, stdout and stderr together)
MaxChunks == 2

Calls == 1..NumCalls

(* ------------------------------ values --------------------------------- *)
\* exit code null of channel.on('exit', (code: number | null) => ...)
Null == 0 - 1
ExitCodes == {Null, 0, 7}

\* an optional argument: absent (undefined) or present with a value
Absent(dflt) == [has |-> FALSE, val |-> dflt]
Given(v) == [has |-> TRUE, val |-> v]

\* strings are sequences of characters; '' is << >>
StdinArgs == {Absent(<< >>), Given(<< >>), Given(<<"s">>)}
TimeoutArgs == {Absent(0), Given(0 - 1), Given(0), Given(1)}
ThrowArgs == {Absent(FALSE), Given(FALSE), Given(TRUE)}

\* JavaScript truthiness of the three option types and of the exit code
TruthyStr(o) == o.has /\ o.val # << >>
TruthyNum(o) == o.has /\ o.val # 0
TruthyBool(o) == o.has /\ o.val
TruthyCode(code) == code # Null /\ code # 0

\* the k-th chunk the channel's output stream / error stream emits
OutChunk(k) == IF k = 1 THEN <<"a">> ELSE <<"b", "c">>
ErrChunk(k) == IF k = 1 THEN <<"x">> ELSE <<"y", "z">>

RECURSIVE ConcatOut(_)
ConcatOut(n) == IF n = 0 THEN << >> ELSE ConcatOut(n - 1) \o OutChunk(n)
RECURSIVE ConcatErr(_)
ConcatErr(n) == IF n = 0 THEN << >> ELSE ConcatErr(n - 1) \o ErrChunk(n)

(* ------------------------------ state ---------------------------------- *)
VARIABLES
  connectStarted,  \* SSHClient.connectStarted
  connState,       \* transport session: unstarted, connecting, ready, errored, closed
  connectCalls,    \* number of client.connect(config) invocations
  explicitCalls,   \* number of connect() calls made by the user of the class
  endCalls,        \* number of client.end() invocations
  promises,        \* the promise of each connect() call, in call order
  readyL,          \* connect() calls whose onReady is registered on the client
  errorL,          \* connect() calls whose onError is registered on the client
  calls            \* the exec / putFile calls, a record per call

vars == <<connectStarted, connState, connectCalls, explicitCalls, endCalls,
          promises, readyL, errorL, calls>>

connVars == <<connectStarted, connState, connectCalls, promises, readyL, errorL>>

\* an options object: a function from the names of its properties to their
\* values; an object without properties
NoOptions == [k \in {} |-> FALSE]

NoOutcome == [kind |-> "pending", code |-> 0, stdout |-> << >>, stderr |-> << >>]

IdleCall ==
  [kind |-> "none", pc |-> "idle", awaits |-> 0,
   via |-> "none", cmd |-> "", script |-> << >>, options |-> NoOptions,
   stdin |-> Absent(<< >>), timeout |-> Absent(0), throwOnNonZero |-> Absent(FALSE),
   stdout |-> << >>, stderr |-> << >>, settled |-> FALSE, stdinDone |-> FALSE,
   timeoutId |-> FALSE, timer |-> "none",
   listeners |-> FALSE, outN |-> 0, errN |-> 0, exited |-> FALSE, exitCode |-> 0,
   stdinEnds |-> 0, stdinAcked |-> FALSE, readyAtOpen |-> FALSE,
   settleCalls |-> 0, fastPuts |-> 0, outcome |-> NoOutcome]

Init ==
  /\ connectStarted = FALSE
  /\ connState = "unstarted"
  /\ connectCalls = 0
  /\ explicitCalls = 0
  /\ endCalls = 0
  /\ promises = << >>
  /\ readyL = {}
  /\ errorL = {}
  /\ calls = [i \in Calls |-> IdleCall]

(* --------------------------- connect / close --------------------------- *)
\* resolve() / reject() of a promise: the first invocation decides, every
\* invocation is counted
Settle(p, how) ==
  [state |-> IF p.state = "pending" THEN how ELSE p.state, settles |-> p.settles + 1]

\* onReady leaving its call's error listener on the client
ErrorListenersKept(errL, fired) == errL

\* onReady, line 44: client.removeListener('error', onError)
ErrorListenersAfterReady(errL, fired) == errL \ fired

\* onError, line 39: client.removeListener('ready', onReady)
ReadyListenersAfterError(rdyL, fired) == rdyL \ fired

\* body of connect(): flag, promise, the two once-listeners, client.connect
ConnectBody ==
  /\ connectStarted' = TRUE
  /\ promises' = Append(promises, [state |-> "pending", settles |-> 0])
  /\ errorL' = errorL \cup {Len(promises) + 1}
  /\ readyL' = readyL \cup {Len(promises) + 1}
  /\ connectCalls' = connectCalls + 1
  /\ connState' = "connecting"

\* connectIfNeeded testing for an established connection instead of a
\* started attempt
NeedsConnectUntilReady == connState # "ready"

\* connectIfNeeded, line 54: if (!this.connectStarted)
NeedsConnect == ~connectStarted

\* the user calls connect() directly
Connect ==
  /\ explicitCalls < MaxConnects
  /\ explicitCalls' = explicitCalls + 1
  /\ ConnectBody
  /\ UNCHANGED <<endCalls, calls>>

\* close() clearing the flag, so that the next call connects again
StartedResetByClose == FALSE

\* close(), lines 57-59, does not assign this.connectStarted
StartedAfterClose == connectStarted

\* the user calls close(): client.end(), nothing else
Close ==
  /\ endCalls < MaxCloses
  /\ endCalls' = endCalls + 1
  /\ connState' = IF connState \in {"connecting", "ready"} THEN "closed" ELSE connState
  /\ connectStarted' = StartedAfterClose
  /\ UNCHANGED <<connectCalls, explicitCalls, promises, readyL, errorL, calls>>

\* the awaited connection attempt is settled (or nothing was awaited)
AwaitOver(c) ==
  IF c.pc = "awaitConnect" THEN promises[c.awaits].state # "pending" ELSE c.pc = "awaitSkip"

\* a continuation of an await is queued as a microtask: it runs before the
\* event loop delivers the next transport event or timer expiration
Quiet == \A i \in Calls : ~AwaitOver(calls[i])

\* the transport emits 'ready': every registered onReady runs, once
TransportReady ==
  /\ Quiet
  /\ connState = "connecting"
  /\ connState' = "ready"
  /\ promises' = [p \in DOMAIN promises |->
                    IF p \in readyL THEN Settle(promises[p], "resolved") ELSE promises[p]]
  /\ errorL' = ErrorListenersAfterReady(errorL, readyL)
  /\ readyL' = {}
  /\ UNCHANGED <<connectStarted, connectCalls, explicitCalls, endCalls, calls>>

\* the transport emits 'error': every registered onError runs, once
TransportError ==
  /\ Quiet
  /\ connState \in {"connecting", "ready"}
  /\ connState' = "errored"
  /\ promises' = [p \in DOMAIN promises |->
                    IF p \in errorL THEN Settle(promises[p], "rejected") ELSE promises[p]]
  /\ readyL' = ReadyListenersAfterError(readyL, errorL)
  /\ errorL' = {}
  /\ UNCHANGED <<connectStarted, connectCalls, explicitCalls, endCalls, calls>>

(* ------------------------------- exec ---------------------------------- *)
\* buffers and flags held once per client instead of once per invocation
UpdShared(i, r) ==
  calls' = [j \in Calls |->
              IF j = i THEN r
              ELSE [calls[j] EXCEPT !.stdout = r.stdout, !.stderr = r.stderr,
                                    !.settled = r.settled, !.stdinDone = r.stdinDone]]

\* lines 75-79: stdout, stderr, settled, stdinDone, timeoutId are locals of
\* the invocation
Upd(i, r) == calls' = [calls EXCEPT ![i] = r]

\* calls are numbered in the order in which they are issued
NextToCall(i) == calls[i].pc = "idle" /\ (IF i = 1 THEN TRUE ELSE calls[i - 1].pc # "idle")

\* await this.connectIfNeeded(), lines 53-55 and 73 / 157: the synchronous
\* part of a call, up to its first await
CallPrologue(i, r) ==
  IF NeedsConnect
    THEN /\ ConnectBody
         /\ Upd(i, [r EXCEPT !.pc = "awaitConnect", !.awaits = Len(promises) + 1])
    ELSE /\ Upd(i, [r EXCEPT !.pc = "awaitSkip"])
         /\ UNCHANGED connVars

\* the user calls exec(cmd, {stdin, timeout, throwOnNonZero})
ExecCall(i, sin, tmo, thr) ==
  /\ NextToCall(i)
  /\ CallPrologue(i, [calls[i] EXCEPT !.kind = "exec", !.via = "exec", !.cmd = "cmd",
                                      !.stdin = sin,
                                      !.timeout = tmo, !.throwOnNonZero = thr])
  /\ UNCHANGED <<explicitCalls, endCalls>>

\* an options object with the given optional properties
ScriptOptions(sudo, tmo, thr, sin) ==
  LET keys == (IF sudo.has THEN {"sudo"} ELSE {}) \cup
              (IF tmo.has THEN {"timeout"} ELSE {}) \cup
              (IF thr.has THEN {"throwOnNonZero"} ELSE {}) \cup
              (IF sin.has THEN {"stdin"} ELSE {})
  IN [k \in keys |-> CASE k = "sudo" -> sudo.val
                       [] k = "timeout" -> tmo.val
                       [] k = "throwOnNonZero" -> thr.val
                       [] k = "stdin" -> sin.val]

\* destructuring a property of an options object, lines 63-71 and 149
Prop(o, k, dflt) == IF k \in DOMAIN o THEN Given(o[k]) ELSE Absent(dflt)

\* line 149: const { sudo, ...otherOptions } = options
OtherOptions(o) == [k \in DOMAIN o \ {"sudo"} |-> o[k]]

\* the spread written after the stdin property, so that a stdin of the
\* options wins
StdinThenSpread(rest, script) ==
  [k \in DOMAIN rest \cup {"stdin"} |-> IF k \in DOMAIN rest THEN rest[k] ELSE script]

\* lines 151-152: { ...otherOptions, stdin: script }
SpreadThenStdin(rest, script) ==
  [k \in DOMAIN rest \cup {"stdin"} |-> IF k = "stdin" THEN script ELSE rest[k]]

\* line 150: `${sudo ? 'sudo ' : ''}bash -s`
ScriptCommand(o) == (IF TruthyBool(Prop(o, "sudo", FALSE)) THEN "sudo " ELSE "") \o "bash -s"

\* the options object execScript hands to exec
ScriptExecOptions(script, o) == SpreadThenStdin(OtherOptions(o), script)

\* the user calls execScript(script, options): lines 141-154, then exec
ExecScriptCall(i, script, o) ==
  LET x == ScriptExecOptions(script, o) IN
  /\ NextToCall(i)
  /\ CallPrologue(i, [calls[i] EXCEPT !.kind = "exec", !.via = "execScript",
                                      !.script = script, !.options = o,
                                      !.cmd = ScriptCommand(o),
                                      !.stdin = Prop(x, "stdin", << >>),
                                      !.timeout = Prop(x, "timeout", 0),
                                      !.throwOnNonZero = Prop(x, "throwOnNonZero", FALSE)])
  /\ UNCHANGED <<explicitCalls, endCalls>>

AwaitFailed(c) == c.pc = "awaitConnect" /\ promises[c.awaits].state = "rejected"

\* line 80: let timeoutId = timeout ? setTimeout(...) : undefined
StartsTimer(tmo) == TruthyNum(tmo)

\* exec resumes after the await: on a failed attempt the call rejects with the
\* wrapped connect error; otherwise the promise executor runs (lines 75-90):
\* the timer is started and client.exec(cmd, callback) is invoked
ExecResume(i) ==
  LET c == calls[i] IN
  /\ c.kind = "exec"
  /\ AwaitOver(c)
  /\ IF AwaitFailed(c)
       THEN Upd(i, [c EXCEPT !.pc = "done", !.outcome.kind = "connect"])
       ELSE Upd(i, [c EXCEPT !.pc = "opening",
                             !.timeoutId = StartsTimer(c.timeout),
                             !.timer = IF StartsTimer(c.timeout) THEN "pending" ELSE "none",
                             !.readyAtOpen = (connState = "ready")])
  /\ UNCHANGED <<connVars, explicitCalls, endCalls>>

\* line 82: if (!settled) in the timeout callback
TimeoutGuard(c) == ~c.settled

\* the timeout callback forgetting to set the completion flag
SettledAfterTimeoutUnset == FALSE

\* line 83: settled = true in the timeout callback
SettledAfterTimeout == TRUE

\* the timer expires: the callback of lines 81-88
TimerFire(i) ==
  LET c == calls[i] IN
  /\ Quiet
  /\ c.timer = "pending"
  /\ IF TimeoutGuard(c)
       THEN Upd(i, [c EXCEPT !.timer = "fired",
                             !.settled = SettledAfterTimeout,
                             !.settleCalls = @ + 1,
                             !.outcome = IF @.kind = "pending"
                                           THEN [NoOutcome EXCEPT !.kind = "timeout"]
                                           ELSE @])
       ELSE Upd(i, [c EXCEPT !.timer = "fired"])
  /\ UNCHANGED <<connVars, explicitCalls, endCalls>>

\* line 100: let stdinDone = !stdin
InitialStdinDone(sin) == ~TruthyStr(sin)

\* line 130: if (stdin)
WritesStdin(sin) == TruthyStr(sin)

\* the transport opens the channel and calls back without error: lines 93-134
ChannelOpen(i) ==
  LET c == calls[i] IN
  /\ Quiet
  /\ c.kind = "exec"
  /\ c.pc = "opening"
  /\ connState = "ready"
  /\ Upd(i, [c EXCEPT !.pc = "open",
                      !.listeners = TRUE,
                      !.stdinDone = InitialStdinDone(c.stdin),
                      !.stdinEnds = IF WritesStdin(c.stdin) THEN @ + 1 ELSE @])
  /\ UNCHANGED <<connVars, explicitCalls, endCalls>>

\* the transport calls back with an error and no channel: line 93 dereferences
\* the undefined channel and throws inside the callback; nothing is
\* registered, nothing is written, neither resolve nor reject is invoked
ChannelOpenError(i) ==
  LET c == calls[i] IN
  /\ Quiet
  /\ c.kind = "exec"
  /\ c.pc = "opening"
  /\ Upd(i, [c EXCEPT !.pc = "threw"])
  /\ UNCHANGED <<connVars, explicitCalls, endCalls>>

RECURSIVE ChunksUpTo(_, _)
ChunksUpTo(cs, n) == IF n = 0 THEN 0 ELSE ChunksUpTo(cs, n - 1) + cs[n].outN + cs[n].errN

\* the transport has more data to deliver
MoreData == ChunksUpTo(calls, NumCalls) < MaxChunks

\* lines 95 and 98: stdout += data, stderr += data
Accumulate(buf, data) == buf \o data

\* the channel's output stream emits its next chunk
StdoutData(i) ==
  LET c == calls[i] IN
  /\ Quiet
  /\ c.pc = "open"
  /\ MoreData
  /\ Upd(i, [c EXCEPT !.outN = @ + 1,
                      !.stdout = Accumulate(@, OutChunk(c.outN + 1))])
  /\ UNCHANGED <<connVars, explicitCalls, endCalls>>

\* the channel's error stream emits its next chunk
StderrData(i) ==
  LET c == calls[i] IN
  /\ Quiet
  /\ c.pc = "open"
  /\ MoreData
  /\ Upd(i, [c EXCEPT !.errN = @ + 1,
                      !.stderr = Accumulate(@, ErrChunk(c.errN + 1))])
  /\ UNCHANGED <<connVars, explicitCalls, endCalls>>

\* the transport acknowledges the stdin write: the callback of lines 131-133
StdinAck(i) ==
  LET c == calls[i] IN
  /\ Quiet
  /\ c.pc = "open"
  /\ c.stdinEnds > 0
  /\ ~c.stdinAcked
  /\ Upd(i, [c EXCEPT !.stdinAcked = TRUE, !.stdinDone = TRUE])
  /\ UNCHANGED <<connVars, explicitCalls, endCalls>>

\* the exit handler without its check of the completion flag
ExitGuardMissing(c) == TRUE

\* line 108: if (!settled) in the exit handler
ExitGuard(c) == ~c.settled

\* the non-zero check ignoring the throwOnNonZero option
ThrowsOnAnyNonZero(thr, code) == TruthyCode(code)

\* line 116: if (throwOnNonZero && code)
ThrowsOnCode(thr, code) == TruthyBool(thr) /\ TruthyCode(code)

\* line 122: code: code || 0
ResultCode(code) == IF TruthyCode(code) THEN code ELSE 0

\* the exit handler testing the exit code before the stdin flag
ExitOutcomeCodeFirst(c, code) ==
  IF ThrowsOnCode(c.throwOnNonZero, code)
    THEN [kind |-> "nonzero", code |-> code, stdout |-> c.stdout, stderr |-> c.stderr]
  ELSE IF ~c.stdinDone
    THEN [kind |-> "premature", code |-> code, stdout |-> c.stdout, stderr |-> c.stderr]
  ELSE [kind |-> "resolved", code |-> ResultCode(code),
        stdout |-> c.stdout, stderr |-> c.stderr]

\* the exit handler logging the premature exit without rejecting
ExitOutcomeNoPrematureReject(c, code) ==
  IF ~c.stdinDone
    THEN c.outcome
  ELSE IF ThrowsOnCode(c.throwOnNonZero, code)
    THEN [kind |-> "nonzero", code |-> code, stdout |-> c.stdout, stderr |-> c.stderr]
  ELSE [kind |-> "resolved", code |-> ResultCode(code),
        stdout |-> c.stdout, stderr |-> c.stderr]

\* lines 110-126: the outcome the exit handler produces
ExitOutcome(c, code) ==
  IF ~c.stdinDone
    THEN [kind |-> "premature", code |-> code, stdout |-> c.stdout, stderr |-> c.stderr]
  ELSE IF ThrowsOnCode(c.throwOnNonZero, code)
    THEN [kind |-> "nonzero", code |-> code, stdout |-> c.stdout, stderr |-> c.stderr]
  ELSE [kind |-> "resolved", code |-> ResultCode(code),
        stdout |-> c.stdout, stderr |-> c.stderr]

\* the exit handler without clearTimeout
TimerLeftRunning(c) == c.timer

\* lines 102-105: clearTimeout(timeoutId) if timeoutId is set
TimerAfterExit(c) == IF c.timeoutId /\ c.timer = "pending" THEN "cleared" ELSE c.timer

\* the channel emits 'exit': the handler of lines 101-129
Exit(i, code) ==
  LET c == calls[i] IN
  /\ Quiet
  /\ c.pc = "open"
  /\ ~c.exited
  /\ IF ExitGuard(c)
       THEN Upd(i, [c EXCEPT !.exited = TRUE,
                             !.exitCode = code,
                             !.timer = TimerAfterExit(c),
                             !.timeoutId = FALSE,
                             !.settled = TRUE,
                             !.settleCalls = @ + 1,
                             !.outcome = IF @.kind = "pending" THEN ExitOutcome(c, code) ELSE @])
       ELSE Upd(i, [c EXCEPT !.exited = TRUE,
                             !.exitCode = code,
                             !.timer = TimerAfterExit(c),
                             !.timeoutId = FALSE])
  /\ UNCHANGED <<connVars, explicitCalls, endCalls>>

(* ------------------------------ putFile -------------------------------- *)
\* the user calls putFile(localPath, remotePath)
PutCall(i) ==
  /\ NextToCall(i)
  /\ CallPrologue(i, [calls[i] EXCEPT !.kind = "put"])
  /\ UNCHANGED <<explicitCalls, endCalls>>

\* putFile invoking fastPut without waiting for the sftp channel
FastPutUnopened(c) == [c EXCEPT !.pc = "putting", !.fastPuts = @ + 1]

\* line 159: await promisify(client.sftp.bind(client))()
SftpRequested(c) == [c EXCEPT !.pc = "sftpOpening", !.readyAtOpen = (connState = "ready")]

\* putFile resumes after the await: line 159 invokes client.sftp
PutResume(i) ==
  LET c == calls[i] IN
  /\ c.kind = "put"
  /\ AwaitOver(c)
  /\ IF AwaitFailed(c)
       THEN Upd(i, [c EXCEPT !.pc = "done", !.outcome.kind = "connect"])
       ELSE Upd(i, SftpRequested(c))
  /\ UNCHANGED <<connVars, explicitCalls, endCalls>>

\* the sftp callback reports success: line 160 invokes sftp.fastPut
SftpOpen(i) ==
  LET c == calls[i] IN
  /\ Quiet
  /\ c.pc = "sftpOpening"
  /\ connState = "ready"
  /\ Upd(i, [c EXCEPT !.pc = "putting", !.fastPuts = @ + 1])
  /\ UNCHANGED <<connVars, explicitCalls, endCalls>>

\* the sftp callback reports an error: putFile rejects with it
SftpError(i) ==
  LET c == calls[i] IN
  /\ Quiet
  /\ c.pc = "sftpOpening"
  /\ Upd(i, [c EXCEPT !.pc = "done", !.outcome.kind = "sftp"])
  /\ UNCHANGED <<connVars, explicitCalls, endCalls>>

\* the fastPut callback reports success or an error
FastPutDone(i, ok) ==
  LET c == calls[i] IN
  /\ Quiet
  /\ c.pc = "putting"
  /\ Upd(i, [c EXCEPT !.pc = "done",
                      !.outcome.kind = IF ok THEN "resolved" ELSE "transfer"])
  /\ UNCHANGED <<connVars, explicitCalls, endCalls>>

(* --------------------------- specification ----------------------------- *)
\* One exec invocation in full detail: every combination of its options,
\* every exit code, every interleaving of its events, on a client whose
\* connection is started by that invocation.
Solo == {1}

NextExec ==
  \/ TransportReady
  \/ TransportError
  \/ \E i \in Solo, sin \in StdinArgs, tmo \in TimeoutArgs, thr \in ThrowArgs :
       ExecCall(i, sin, tmo, thr)
  \/ \E i \in Solo : ExecResume(i)
  \/ \E i \in Solo : TimerFire(i)
  \/ \E i \in Solo : ChannelOpen(i)
  \/ \E i \in Solo : ChannelOpenError(i)
  \/ \E i \in Solo : StdoutData(i)
  \/ \E i \in Solo : StderrData(i)
  \/ \E i \in Solo : StdinAck(i)
  \/ \E i \in Solo, code \in ExitCodes : Exit(i, code)

SpecExec == Init /\ [][NextExec]_vars

\* The client as a whole: concurrent exec and putFile calls, explicit
\* connect() and close(), with the exec options that decide the control flow
\* of an invocation (stdin written or not, timer started or not).
SomeStdin == {Absent(<< >>), Given(<<"s">>)}
SomeTimeouts == {Absent(0), Given(1)}
SomeThrow == {Absent(FALSE)}
SomeCodes == {0}

Next ==
  \/ Connect
  \/ Close
  \/ TransportReady
  \/ TransportError
  \/ \E i \in Calls, sin \in SomeStdin, tmo \in SomeTimeouts, thr \in SomeThrow :
       ExecCall(i, sin, tmo, thr)
  \/ \E i \in Calls : ExecResume(i)
  \/ \E i \in Calls : TimerFire(i)
  \/ \E i \in Calls : ChannelOpen(i)
  \/ \E i \in Calls : ChannelOpenError(i)
  \/ \E i \in Calls : StdoutData(i)
  \/ \E i \in Calls : StderrData(i)
  \/ \E i \in Calls : StdinAck(i)
  \/ \E i \in Calls, code \in SomeCodes : Exit(i, code)
  \/ \E i \in Calls : PutCall(i)
  \/ \E i \in Calls : PutResume(i)
  \/ \E i \in Calls : SftpOpen(i)
  \/ \E i \in Calls : SftpError(i)
  \/ \E i \in Calls, ok \in BOOLEAN : FastPutDone(i, ok)

Spec == Init /\ [][Next]_vars

\* The connection manager alone: the calls up to the point where they ask the
\* transport for a channel, explicit connect() and close(), and the
\* transport's ready and error signals. No channel event reads or writes the
\* connection state.
NextConnect ==
  \/ Connect
  \/ Close
  \/ TransportReady
  \/ TransportError
  \/ \E i \in Calls, sin \in SomeStdin, tmo \in SomeTimeouts, thr \in SomeThrow :
       ExecCall(i, sin, tmo, thr)
  \/ \E i \in Calls : ExecResume(i)
  \/ \E i \in Calls : PutCall(i)
  \/ \E i \in Calls : PutResume(i)

SpecConnect == Init /\ [][NextConnect]_vars

\* The file uploader: putFile calls, explicit connect() and close(), the
\* transport's signals and the callbacks of sftp and fastPut.
NextPut ==
  \/ Connect
  \/ Close
  \/ TransportReady
  \/ TransportError
  \/ \E i \in Calls : PutCall(i)
  \/ \E i \in Calls : PutResume(i)
  \/ \E i \in Calls : SftpOpen(i)
  \/ \E i \in Calls : SftpError(i)
  \/ \E i \in Calls, ok \in BOOLEAN : FastPutDone(i, ok)

SpecPut == Init /\ [][NextPut]_vars

\* Two exec invocations in flight at once on a connection started by the
\* first of them, with every interleaving of their events.
Pair == {1, 2}

NextPair ==
  \/ TransportReady
  \/ TransportError
  \/ \E i \in Pair, sin \in SomeStdin, tmo \in SomeTimeouts, thr \in SomeThrow :
       ExecCall(i, sin, tmo, thr)
  \/ \E i \in Pair : ExecResume(i)
  \/ \E i \in Pair : TimerFire(i)
  \/ \E i \in Pair : ChannelOpen(i)
  \/ \E i \in Pair : StdoutData(i)
  \/ \E i \in Pair : StderrData(i)
  \/ \E i \in Pair : StdinAck(i)
  \/ \E i \in Pair, code \in SomeCodes : Exit(i, code)

SpecPair == Init /\ [][NextPair]_vars

\* close() at any moment of two calls, exec or putFile, up to the exit of
\* an exec invocation and the channel request of a putFile.
NextClose ==
  \/ Close
  \/ TransportReady
  \/ TransportError
  \/ \E i \in Pair, sin \in SomeStdin, tmo \in SomeTimeouts, thr \in SomeThrow :
       ExecCall(i, sin, tmo, thr)
  \/ \E i \in Pair : ExecResume(i)
  \/ \E i \in Pair : TimerFire(i)
  \/ \E i \in Pair : ChannelOpen(i)
  \/ \E i \in Pair : StdoutData(i)
  \/ \E i \in Pair : StdinAck(i)
  \/ \E i \in Pair, code \in SomeCodes : Exit(i, code)
  \/ \E i \in Pair : PutCall(i)
  \/ \E i \in Pair : PutResume(i)

SpecClose == Init /\ [][NextClose]_vars

\* One execScript invocation: every script and options object, then the
\* events of the exec invocation it becomes.
Scripts == {<< >>, <<"s">>}
ScriptOptionObjects ==
  {ScriptOptions(sudo, tmo, thr, sin) :
     sudo \in {Absent(FALSE), Given(FALSE), Given(TRUE)},
     tmo \in SomeTimeouts,
     thr \in {Absent(FALSE), Given(TRUE)},
     sin \in {Absent(<< >>), Given(<<"x">>)}}

NextScript ==
  \/ TransportReady
  \/ TransportError
  \/ \E i \in Solo, script \in Scripts, o \in ScriptOptionObjects :
       ExecScriptCall(i, script, o)
  \/ \E i \in Solo : ExecResume(i)
  \/ \E i \in Solo : TimerFire(i)
  \/ \E i \in Solo : ChannelOpen(i)
  \/ \E i \in Solo : ChannelOpenError(i)
  \/ \E i \in Solo : StdoutData(i)
  \/ \E i \in Solo : StderrData(i)
  \/ \E i \in Solo : StdinAck(i)
  \/ \E i \in Solo, code \in ExitCodes : Exit(i, code)

SpecScript == Init /\ [][NextScript]_vars

\* The single invocation under the scheduling the runtime guarantees: a
\* queued continuation runs and a pending timer expires; the transport is
\* under no obligation to signal anything.
FairSpecExec ==
  /\ SpecExec
  /\ WF_vars(\E i \in Solo : ExecResume(i))
  /\ WF_vars(\E i \in Solo : TimerFire(i))

(* ------------------------------ claims --------------------------------- *)
\* the step in which the exit event of call i is delivered
ExitStep(i) == ~calls[i].exited /\ calls'[i].exited

\* the outcome is a failure
Rejected(c) == c.outcome.kind \notin {"pending", "resolved"}

\* C1: resolve and reject are invoked at most once in total per exec
\* invocation: the completion flag never returns to false, an invocation of
\* resolve or reject happens only in a step that takes the flag from false to
\* true, and once the flag is true the outcome never changes.
SettlesAtMostOnce ==
  /\ [](\A i \in Calls : calls[i].settleCalls <= 1)
  /\ [][\A i \in Calls :
          /\ calls[i].settled => calls'[i].settled
          /\ calls'[i].settleCalls # calls[i].settleCalls =>
                /\ ~calls[i].settled
                /\ calls'[i].settled
                /\ calls'[i].settleCalls = calls[i].settleCalls + 1
          /\ calls[i].settled => calls'[i].outcome = calls[i].outcome]_vars

\* C1 witness: the timer fired and the exit event was delivered as well, and
\* one outcome was produced
BothTimerAndExitSeen ==
  \E i \in Calls : calls[i].timer = "fired" /\ calls[i].exited /\ calls[i].settleCalls = 1

\* C2: once the timer of an invocation has fired (which it can only do before
\* the exit event), the invocation is rejected with the timeout failure, in
\* every later state, also after an exit event: one outcome, never a second.
TimeoutWins ==
  \A i \in Calls :
    calls[i].timer = "fired" =>
      /\ calls[i].outcome = [NoOutcome EXCEPT !.kind = "timeout"]
      /\ calls[i].settled
      /\ calls[i].settleCalls = 1

\* C2 witness: the exit event arrived after the timer fired, with a zero exit
\* code and stdin flushed
ExitAfterTimeout ==
  \E i \in Calls :
    /\ calls[i].timer = "fired" /\ calls[i].exited
    /\ calls[i].exitCode = 0 /\ calls[i].stdinAcked

\* C3: when stdin is supplied and the exit event is delivered before the
\* stdin write was acknowledged and before any timeout fired, the invocation
\* rejects with the premature-exit failure, whatever the exit code and
\* throwOnNonZero.
PrematureExitRejects ==
  [][\A i \in Calls :
       (ExitStep(i) /\ calls[i].stdin.has /\ ~calls[i].stdinAcked
          /\ calls[i].timer # "fired")
         => calls'[i].outcome.kind = "premature"]_vars

\* C4: an exit event with a non-zero code N on an unsettled invocation whose
\* stdin is absent or flushed rejects with N and the accumulated output when
\* throwOnNonZero is true, and resolves with N and the accumulated output
\* when it is false or absent.
NonZeroExitDecided ==
  [][\A i \in Calls : \A n \in ExitCodes \ {Null, 0} :
       (Exit(i, n) /\ ~calls[i].settled
          /\ (~calls[i].stdin.has \/ calls[i].stdinAcked))
         => calls'[i].outcome =
              [kind |-> IF calls[i].throwOnNonZero.has /\ calls[i].throwOnNonZero.val
                          THEN "nonzero" ELSE "resolved",
               code |-> n,
               stdout |-> calls[i].stdout,
               stderr |-> calls[i].stderr]]_vars

\* C4 witness: a rejection carrying exit code 7 and output of both streams
NonZeroRejectionSeen ==
  \E i \in Calls :
    /\ calls[i].outcome.kind = "nonzero" /\ calls[i].outcome.code = 7
    /\ calls[i].outcome.stdout # << >> /\ calls[i].outcome.stderr # << >>

\* C5: an invocation without stdin whose process exits with code 0, no
\* timeout having fired, is resolved with code 0 and with stdout and stderr
\* equal to the in-order concatenation of all chunks the two streams emit.
ResolvesWithAllOutput ==
  \A i \in Calls :
    (calls[i].exited /\ calls[i].exitCode = 0 /\ ~calls[i].stdin.has
       /\ calls[i].timer # "fired")
      => calls[i].outcome =
           [kind |-> "resolved", code |-> 0,
            stdout |-> ConcatOut(calls[i].outN),
            stderr |-> ConcatErr(calls[i].errN)]

\* the transport's exec or sftp-open has been invoked for call i
ChannelRequested(c) == c.pc \in {"opening", "open", "threw", "sftpOpening", "putting"}

\* C6: without an explicit connect() call, the transport's connect is
\* invoked exactly once, by the first exec or putFile call, and by no later
\* call, whether the attempt is in flight, succeeded or failed.
OneConnectAttempt ==
  explicitCalls = 0 =>
    /\ connectCalls = IF calls[1].pc = "idle" THEN 0 ELSE 1
    /\ Len(promises) = connectCalls
    /\ \A i \in Calls : calls[i].awaits = IF i = 1 /\ calls[i].pc # "idle" THEN 1 ELSE 0

\* C6 witness: every call was issued without an explicit connect() and the
\* one attempt has failed
AllCalledAfterFailure ==
  /\ explicitCalls = 0
  /\ connState = "errored"
  /\ \A i \in Calls : calls[i].pc # "idle"
  /\ \E i \in Calls : calls[i].kind = "put"
  /\ \E i \in Calls : calls[i].kind = "exec"

\* C7: with no explicit connect() and no close(), no call invokes the
\* transport's exec or sftp-open unless the connection is ready at that
\* moment: a caller arriving during the attempt waits for its outcome.
ChannelOnlyWhenReady ==
  (explicitCalls = 0 /\ endCalls = 0) =>
    \A i \in Calls :
      (ChannelRequested(calls[i]) /\ connState \in {"connecting", "ready"})
        => calls[i].readyAtOpen

\* C8: when the channel-open callback reports an error, the invocation is
\* rejected at once, no listener is registered and no stdin is written.
OpenFailureRejects ==
  \A i \in Calls :
    calls[i].pc = "threw" =>
      /\ Rejected(calls[i])
      /\ ~calls[i].listeners
      /\ calls[i].stdinEnds = 0

\* C9: an exec invocation called with a timeout greater than zero eventually
\* settles, whatever the transport does or fails to do.
TimeoutBoundsInvocation ==
  \A i \in Calls :
    (calls[i].kind = "exec" /\ calls[i].timeout.has /\ calls[i].timeout.val > 0)
      ~> (calls[i].outcome.kind # "pending")

\* C10: the promise of each connect() call is settled at most once, resolved
\* by a ready signal and rejected by an error signal, whichever comes first
\* while it is pending; a pending call has both of its listeners registered
\* and a settled call has neither.
ConnectSettlesOnce ==
  /\ [](\A p \in DOMAIN promises :
          /\ promises[p].settles <= 1
          /\ promises[p].state = "pending" <=> promises[p].settles = 0
          /\ IF promises[p].state = "pending"
               THEN p \in readyL /\ p \in errorL
               ELSE p \notin readyL /\ p \notin errorL)
  /\ [][\A p \in DOMAIN promises :
          promises[p].state = "pending" =>
            /\ (connState = "connecting" /\ connState' = "ready")
                  => promises'[p].state = "resolved"
            /\ connState' = "errored" => promises'[p].state = "rejected"
            /\ promises'[p].state = "resolved" => connState' = "ready"
            /\ promises'[p].state = "rejected" => connState' = "errored"]_vars

\* C10 witness: a connect() call resolved and the transport signalled an
\* error afterwards, while another connect() call was rejected by it
ErrorAfterResolvedConnect ==
  /\ connState = "errored"
  /\ \E p \in DOMAIN promises : promises[p].state = "resolved"
  /\ \E p \in DOMAIN promises : promises[p].state = "rejected"

\* C11: once the channel is open, a supplied stdin (the empty string
\* included) has been written and the input stream closed exactly once; with
\* stdin absent nothing is written and the stdin-flushed flag is true.
SuppliedStdinWritten ==
  \A i \in Calls :
    calls[i].pc = "open" =>
      /\ calls[i].stdinEnds = IF calls[i].stdin.has THEN 1 ELSE 0
      /\ ~calls[i].stdin.has => calls[i].stdinDone

\* C15: the exit handler decides in this order over the completion flag, the
\* stdin-flushed flag, throwOnNonZero and the code: settled, nothing; stdin
\* not flushed, premature-exit failure; throwOnNonZero and a code that is
\* neither 0 nor null, non-zero-exit failure; otherwise success with the code,
\* 0 for null. A timeout failure comes from the timer alone, the two other
\* failures from the exit event alone.
ExitDecision ==
  /\ [](\A i \in Calls :
          /\ calls[i].outcome.kind = "timeout" => calls[i].timer = "fired"
          /\ calls[i].outcome.kind \in {"premature", "nonzero"} =>
                calls[i].exited /\ calls[i].timer # "fired")
  /\ [][\A i \in Calls : \A code \in ExitCodes :
          Exit(i, code) =>
            IF calls[i].settled
              THEN /\ calls'[i].outcome = calls[i].outcome
                   /\ calls'[i].settleCalls = calls[i].settleCalls
            ELSE IF ~calls[i].stdinDone
              THEN calls'[i].outcome.kind = "premature"
            ELSE IF calls[i].throwOnNonZero.has /\ calls[i].throwOnNonZero.val
                      /\ code # 0 /\ code # Null
              THEN calls'[i].outcome.kind = "nonzero" /\ calls'[i].outcome.code = code
            ELSE calls'[i].outcome =
                   [kind |-> "resolved", code |-> IF code = Null THEN 0 ELSE code,
                    stdout |-> calls[i].stdout, stderr |-> calls[i].stderr]]_vars

\* C15 witness: a premature exit with code 7 under throwOnNonZero: the stdin
\* test came before the code test
PrematureBeforeNonZero ==
  \E i \in Calls :
    /\ calls[i].outcome.kind = "premature" /\ calls[i].exitCode = 7
    /\ calls[i].throwOnNonZero.has /\ calls[i].throwOnNonZero.val

\* C16: an exit event delivered while the timer is pending cancels it: after
\* the exit event the timer is never pending and never fires, and the outcome
\* is the one the exit event decided.
ExitCancelsTimer ==
  /\ [](\A i \in Calls : calls[i].exited => calls[i].timer # "pending")
  /\ [][\A i \in Calls :
          /\ (ExitStep(i) /\ calls[i].timer = "pending") =>
                /\ calls'[i].timer = "cleared"
                /\ calls'[i].outcome.kind \in {"premature", "nonzero", "resolved"}
          /\ calls[i].exited =>
                /\ calls'[i].timer = calls[i].timer
                /\ calls'[i].outcome = calls[i].outcome]_vars

\* C16 witness: the exit event arrived while the timer was pending
TimerClearedByExit ==
  \E i \in Calls : calls[i].exited /\ calls[i].timer = "cleared"

\* C17: an invocation whose connection became ready, whose channel opened
\* and whose exit event was delivered is settled, by exactly one invocation
\* of resolve or reject, with or without timeout and stdin.
ExitSettles ==
  \A i \in Calls :
    calls[i].exited =>
      /\ calls[i].settled
      /\ calls[i].settleCalls = 1
      /\ calls[i].outcome.kind \in {"resolved", "timeout", "premature", "nonzero"}

\* C17 witness: exit delivered before the stdin write was acknowledged, on an
\* invocation with a timeout
ExitedUnflushedWithTimer ==
  \E i \in Calls :
    /\ calls[i].exited /\ calls[i].stdinEnds = 1 /\ ~calls[i].stdinAcked
    /\ calls[i].timer = "cleared"

\* C20: a timer is started if and only if a timeout greater than zero is
\* supplied; otherwise none is started and the invocation never fails by
\* timeout.
TimerIffPositiveTimeout ==
  \A i \in Calls :
    calls[i].kind = "exec" =>
      IF calls[i].timeout.has /\ calls[i].timeout.val > 0
        THEN calls[i].pc \in {"opening", "open", "threw"} => calls[i].timer # "none"
        ELSE calls[i].timer = "none" /\ calls[i].outcome.kind # "timeout"

\* C12: execScript(script, options) is exec with the command 'sudo bash -s'
\* when options.sudo is true and 'bash -s' otherwise, stdin fixed to the
\* script, timeout and throwOnNonZero as given in options; the sudo property
\* is not handed to exec and a stdin property of options never replaces the
\* script.
ScriptIsExec ==
  \A i \in Calls :
    calls[i].via = "execScript" =>
      LET o == calls[i].options IN
      /\ calls[i].kind = "exec"
      /\ calls[i].cmd = IF "sudo" \in DOMAIN o /\ o["sudo"]
                          THEN "sudo bash -s" ELSE "bash -s"
      /\ calls[i].stdin = Given(calls[i].script)
      /\ calls[i].timeout =
            IF "timeout" \in DOMAIN o THEN Given(o["timeout"]) ELSE Absent(0)
      /\ calls[i].throwOnNonZero =
            IF "throwOnNonZero" \in DOMAIN o THEN Given(o["throwOnNonZero"])
                                              ELSE Absent(FALSE)
      /\ "sudo" \notin DOMAIN ScriptExecOptions(calls[i].script, o)

\* C12 witness: an elevated script whose options carried a stdin of their
\* own was written to the open channel
SudoScriptWritten ==
  \E i \in Calls :
    /\ calls[i].via = "execScript" /\ calls[i].cmd = "sudo bash -s"
    /\ "stdin" \in DOMAIN calls[i].options
    /\ calls[i].stdinEnds = 1 /\ calls[i].stdinAcked

\* C13: putFile runs connect-if-needed, then the sftp channel open, then
\* fastPut: fastPut is invoked only by a successful channel open and once,
\* putFile resolves only when fastPut reported success, every settlement
\* starts from a pending putFile (so it settles at most once), and a failed
\* connection attempt, channel open or transfer rejects it.
PutStepInOrder(i) ==
  LET c == calls[i]
      d == calls'[i]
  IN
  /\ d.pc = "sftpOpening" /\ c.pc # "sftpOpening" =>
        c.pc \in {"awaitConnect", "awaitSkip"} /\ connectStarted /\ ~AwaitFailed(c)
  /\ d.fastPuts # c.fastPuts =>
        c.pc = "sftpOpening" /\ d.pc = "putting" /\ c.fastPuts = 0 /\ d.fastPuts = 1
  /\ d.outcome # c.outcome =>
        /\ c.outcome.kind = "pending" /\ d.pc = "done"
        /\ d.outcome.kind \in {"resolved", "connect", "sftp", "transfer"}
        /\ d.outcome.kind \in {"resolved", "transfer"} => c.pc = "putting" /\ c.fastPuts = 1
        /\ d.outcome.kind = "sftp" => c.pc = "sftpOpening" /\ c.fastPuts = 0
        /\ d.outcome.kind = "connect" => c.pc = "awaitConnect" /\ AwaitFailed(c) /\ c.fastPuts = 0
  /\ c.pc = "awaitConnect" /\ AwaitFailed(c) /\ d.pc # c.pc => d.outcome.kind = "connect"
  /\ c.pc = "done" => d = c

PutFileInOrder ==
  [][\A i \in Calls : calls'[i].kind = "put" => PutStepInOrder(i)]_vars

\* C13 witness: one putFile resolved after its transfer and another was
\* rejected by a failed channel open without any transfer
PutResolvedAndRejected ==
  \E i, j \in Calls :
    /\ calls[i].kind = "put" /\ calls[i].outcome.kind = "resolved" /\ calls[i].fastPuts = 1
    /\ calls[j].kind = "put" /\ calls[j].outcome.kind = "sftp" /\ calls[j].fastPuts = 0

\* C14: a close() call invokes client.end() exactly once, whatever the state
\* of the connection, and changes nothing else of the client: the
\* connectStarted flag, the connect promises and listeners and every call's
\* buffers, timer and flags are unchanged; and a call issued while
\* connectStarted is set never invokes client.connect.
CloseStep == endCalls' # endCalls

CallIssued(i) == calls[i].pc = "idle" /\ calls'[i].pc # "idle"

CloseOnlyEnds ==
  [][/\ CloseStep =>
          /\ endCalls' = endCalls + 1
          /\ UNCHANGED <<connectStarted, connectCalls, explicitCalls,
                         promises, readyL, errorL, calls>>
     /\ \A i \in Calls :
          CallIssued(i) /\ connectStarted =>
            connectCalls' = connectCalls /\ calls'[i].pc = "awaitSkip"]_vars

\* C14 witness: close() was called on a live and again on the closed
\* connection while an exec invocation held output and a pending timer, and
\* a call issued after the first close() started no second attempt
ClosedTwiceInFlight ==
  /\ endCalls = 2 /\ connState = "closed" /\ connectStarted /\ connectCalls = 1
  /\ \E i \in Calls : /\ calls[i].timer = "pending" /\ calls[i].stdout # << >>
                       /\ ~calls[i].settled
  /\ \A i \in Calls : calls[i].pc # "idle"

\* C18: concurrent exec invocations are independent: a data, stdin
\* acknowledgement, exit or timer event of one invocation changes the
\* buffers, flags, timer and outcome of that invocation only.
EventOf(i) ==
  \/ calls'[i].outN # calls[i].outN
  \/ calls'[i].errN # calls[i].errN
  \/ calls'[i].stdinAcked # calls[i].stdinAcked
  \/ calls'[i].exited # calls[i].exited
  \/ calls'[i].timer = "fired" /\ calls[i].timer # "fired"

InvocationsIndependent ==
  [][\A i \in Calls : EventOf(i) => \A j \in Calls \ {i} : calls'[j] = calls[j]]_vars

\* C18 witness: two exec invocations are open at once, one timed out with
\* its own output, the other still pending with different buffers and flags
TwoInvocationsDiverged ==
  \E i, j \in Calls :
    /\ i # j /\ calls[i].kind = "exec" /\ calls[j].kind = "exec"
    /\ calls[i].listeners /\ calls[j].listeners
    /\ calls[i].outcome.kind = "timeout" /\ calls[i].stdout # << >>
    /\ calls[j].outcome.kind = "pending" /\ calls[j].timer = "pending"
    /\ calls[j].stdout # calls[i].stdout /\ ~calls[j].stdinDone /\ calls[i].stdinDone

\* C19: over every interleaving of connect(), exec, putFile and close() the
\* transport's connect is invoked at most once.
ConnectInvokedAtMostOnce == connectCalls <= 1

====
